---- MODULE Spec2Model ----
(***************************************************************************)
(* Model of tools/raydium/raydium_swap_buy_tool.py: the Raydium swap       *)
(* executor.  One invocation of tool_function is a sequential process      *)
(* whose steps are cut at its external calls (quote, build, blockhash      *)
(* fetch, sign, sleep, submit, notification); the outcome of every         *)
(* external call is a nondeterministic choice.                             *)
(*                                                                         *)
(* Text.  A Python str is modelled as the sequence of its                  *)
(* whitespace-separated words; concatenation is \o, "x in s" is            *)
(* contiguous sub-sequence, s.startswith(p) is prefix.                     *)
(* Optional values are sequences of length 0 (None) or 1.                  *)
(***************************************************************************)
EXTENDS Integers, Sequences, FiniteSets, TLC

(* -------------------------- bounds of the model ------------------------ *)

\* longest payload list the transaction builder returns
MaxPayloads == 2

\* number of tool_function invocations the model holds
NumInvocations == 2

(* ------------------------------ text ----------------------------------- *)

None == <<>>

Some(x) == <<x>>

IsSubstring(needle, s) ==
    \E k \in 0..(Len(s) - Len(needle)) : SubSeq(s, k + 1, k + Len(needle)) = needle

StartsWith(s, p) == Len(p) <= Len(s) /\ SubSeq(s, 1, Len(p)) = p

\* str.lower(), word by word
LowerWord(w) ==
    CASE w = "Insufficient" -> "insufficient"
      [] w = "INSUFFICIENT" -> "insufficient"
      [] w = "Transaction" -> "transaction"
      [] w = "Failed" -> "failed"
      [] w = "Blockhash" -> "blockhash"
      [] w = "Transfer:" -> "transfer:"
      [] w = "SOL" -> "sol"
      [] w = "Need" -> "need"
      [] w = "None" -> "none"
      [] OTHER -> w

Lower(s) == [k \in 1..Len(s) |-> LowerWord(s[k])]

(* --------------------------- module constants -------------------------- *)

WSOL_INPUT_MINT ==
    <<"S","o","1","1","1","1","1","1","1","1","1","1","1","1","1","1","1","1","1","1","1","1",
      "1","1","1","1","1","1","1","1","1","1","1","1","1","1","1","1","1","1","1","1","2">>

PRIORITY_FEE == <<"200000">>

\* [1-9A-HJ-NP-Za-km-z]
Base58Alphabet ==
    {"1","2","3","4","5","6","7","8","9","A","B","C","D","E","F","G","H","J","K","L","M","N",
     "P","Q","R","S","T","U","V","W","X","Y","Z","a","b","c","d","e","f","g","h","i","j","k",
     "m","n","o","p","q","r","s","t","u","v","w","x","y","z"}

TOKEN_MIN_LENGTH == 32

TOKEN_MAX_LENGTH == 44

AMOUNT_LE == 10000

SLIPPAGE_LE == 1000

\* range(5): the attempt budget of the retry loop
RETRY_BUDGET == 5

\* Decimal(10**9), as a power of ten
LAMPORTS_EXP == 9

(* ----------------------------- exceptions ------------------------------ *)

\* the classes an exception of class c is an instance of
Bases(c) ==
    CASE c = "RaydiumError" -> {"RaydiumError", "Exception"}
      [] c = "RequestException" -> {"RequestException", "OSError", "Exception"}
      [] c = "ValidationError" -> {"ValidationError", "ValueError", "Exception"}
      [] c = "UnicodeEncodeError" -> {"UnicodeEncodeError", "ValueError", "Exception"}
      [] c = "KeyError" -> {"KeyError", "LookupError", "Exception"}
      [] c = "AttributeError" -> {"AttributeError", "Exception"}
      [] c = "RPCException" -> {"RPCException", "Exception"}
      [] OTHER -> {c, "Exception"}

IsInstance(e, c) == c \in Bases(e.cls)

Exc(c, m) == [cls |-> c, msg |-> m]

\* the outcome of a call: a returned value or a raised exception
Return(v) == [ok |-> TRUE, value |-> v]

Raise(e) == [ok |-> FALSE, exc |-> e]

RaydiumError(m) == Exc("RaydiumError", m)

(* ------------------------------ decimals -------------------------------- *)
(* A Decimal is coef * 10^-exp.  Integers wider than 31 bits are kept as   *)
(* two limbs in base 10^9: hi * 10^9 + lo.                                 *)

RECURSIVE Pow10(_)
Pow10(n) == IF n = 0 THEN 1 ELSE 10 * Pow10(n - 1)

\* the integer part of d, the first nine decimals of its fraction, and whether
\* anything is left below them (d >= 0, exp <= 18)
DecimalSplit(d) ==
    LET scaled == IF d.exp > LAMPORTS_EXP THEN d.coef \div Pow10(d.exp - LAMPORTS_EXP)
                  ELSE d.coef
        rest == IF d.exp > LAMPORTS_EXP THEN d.coef % Pow10(d.exp - LAMPORTS_EXP) ELSE 0
        e == IF d.exp > LAMPORTS_EXP THEN LAMPORTS_EXP ELSE d.exp
    IN [whole |-> scaled \div Pow10(e),
        nanos |-> (scaled % Pow10(e)) * Pow10(LAMPORTS_EXP - e),
        below |-> rest # 0]

\* the precision of the decimal context, in significant digits
DECIMAL_PREC == 28

\* a Decimal with more digits than coef can hold is [digits, exp]: the digits of its
\* whole part (at least one), then its exp decimals; it is not negative
IsLong(d) == "digits" \in DOMAIN d

RECURSIVE DigitsValue(_)
DigitsValue(ds) ==
    IF ds = <<>> THEN 0
    ELSE 10 * DigitsValue(SubSeq(ds, 1, Len(ds) - 1)) + ds[Len(ds)]

WholeDigits(d) == SubSeq(d.digits, 1, Len(d.digits) - d.exp)

FractionDigits(d) == SubSeq(d.digits, Len(d.digits) - d.exp + 1, Len(d.digits))

\* the place of the first significant digit (past the end when all are 0)
FirstSignificant(ds) ==
    IF \A k \in DOMAIN ds : ds[k] = 0 THEN Len(ds) + 1
    ELSE CHOOSE k \in DOMAIN ds : ds[k] # 0 /\ \A j \in 1..(k - 1) : ds[j] = 0

\* one more unit at place k, with the carry (some digit up to k is below 9)
AddOne(ds, k) ==
    LET stop == CHOOSE c \in 1..k : ds[c] < 9 /\ \A j \in (c + 1)..k : ds[j] = 9
    IN [j \in 1..Len(ds) |->
          IF j = stop THEN ds[j] + 1
          ELSE IF stop < j /\ j <= k THEN 0
          ELSE ds[j]]

\* the digits of the result of an arithmetic operation: rounded half-even to the
\* precision of the context (one place is added in front for the carry)
RoundToPrecision(ds) ==
    LET z == <<0>> \o ds
        first == FirstSignificant(z)
        last == first + DECIMAL_PREC - 1
    IN IF last >= Len(z) THEN z
       ELSE LET kept == [k \in 1..Len(z) |-> IF k <= last THEN z[k] ELSE 0]
                more == \E k \in (last + 2)..Len(z) : z[k] # 0
                up == \/ z[last + 1] > 5
                      \/ z[last + 1] = 5 /\ (more \/ z[last] % 2 = 1)
            IN IF up THEN AddOne(kept, last) ELSE kept

\* Field(gt=0)
DecimalGt0(d) ==
    IF IsLong(d) THEN \E k \in DOMAIN d.digits : d.digits[k] # 0
    ELSE d.coef > 0

\* DecimalLe with the bound itself excluded (lt instead of le)
DecimalLeExclusive(d, n) ==
    IF IsLong(d) THEN DigitsValue(WholeDigits(d)) < n
    ELSE \/ d.coef <= 0
         \/ DecimalSplit(d).whole < n

\* Field(le=n) for a Decimal (a comparison is exact, whatever the precision)
DecimalLe(d, n) ==
    IF IsLong(d)
    THEN \/ DigitsValue(WholeDigits(d)) < n
         \/ /\ DigitsValue(WholeDigits(d)) = n
            /\ \A k \in DOMAIN FractionDigits(d) : FractionDigits(d)[k] = 0
    ELSE \/ d.coef <= 0
         \/ LET s == DecimalSplit(d)
            IN \/ s.whole < n
               \/ s.whole = n /\ s.nanos = 0 /\ ~s.below

\* int(amount * Decimal(10**9)) for a long amount: the product is rounded to the
\* precision of the context, then int() truncates it
LongToLamports(amount) ==
    LET padded == IF amount.exp >= LAMPORTS_EXP THEN amount.digits
                  ELSE amount.digits \o [k \in 1..(LAMPORTS_EXP - amount.exp) |-> 0]
        product == RoundToPrecision(padded)
        point == Len(product)
                   - (IF amount.exp > LAMPORTS_EXP THEN amount.exp - LAMPORTS_EXP
                      ELSE 0)
    IN [hi |-> DigitsValue(SubSeq(product, 1, point - LAMPORTS_EXP)),
        lo |-> DigitsValue(SubSeq(product, point - LAMPORTS_EXP + 1, point))]

\* Decimal("1.9999999999999999999999999999") and a Decimal just below 10^-9, of 29
\* significant digits each
LongAmounts ==
    {[digits |-> <<1>> \o [k \in 1..DECIMAL_PREC |-> 9], exp |-> DECIMAL_PREC],
     [digits |-> [k \in 1..(LAMPORTS_EXP + 1) |-> 0]
                   \o [k \in 1..(DECIMAL_PREC + 1) |-> 9],
      exp |-> LAMPORTS_EXP + DECIMAL_PREC + 1]}

\* LongToLamports of the long amounts, computed once
LamportsOfLongAmounts == [a \in LongAmounts |-> LongToLamports(a)]

\* int(amount * Decimal(10**9)) for amount >= 0 (a coef of at most ten digits is never
\* rounded, int() only truncates)
ToLamports(amount) ==
    IF IsLong(amount) THEN LamportsOfLongAmounts[amount]
    ELSE LET s == DecimalSplit(amount) IN [hi |-> s.whole, lo |-> s.nanos]

(* ------------------------------ LLMParams ------------------------------- *)

\* pattern="^[1-9A-HJ-NP-Za-km-z]{32,44}$"
MatchesPattern(v) ==
    /\ Len(v) >= TOKEN_MIN_LENGTH
    /\ Len(v) <= TOKEN_MAX_LENGTH
    /\ \A k \in 1..Len(v) : v[k] \in Base58Alphabet

\* the constraints of Field(...) on token_address
TokenAddressFieldOk(v) ==
    /\ Len(v) >= TOKEN_MIN_LENGTH
    /\ Len(v) <= TOKEN_MAX_LENGTH
    /\ MatchesPattern(v)

\* @field_validator("token_address"): TRUE when it raises
validate_token_address_raises(v) == v = WSOL_INPUT_MINT

TokenAddressOk(v) == TokenAddressFieldOk(v) /\ ~validate_token_address_raises(v)

AmountOk(a) == DecimalGt0(a) /\ DecimalLe(a, AMOUNT_LE)

SlippageOk(s) == s > 0 /\ s <= SLIPPAGE_LE

\* str(e) of the pydantic ValidationError: the fields that failed
ValidationDetails(token_address, amount, slippage_bps) ==
    <<"validation", "error", "for", "ToolParameters">>
      \o (IF TokenAddressOk(token_address) THEN <<>> ELSE <<"token_address">>)
      \o (IF AmountOk(amount) THEN <<>> ELSE <<"amount">>)
      \o (IF SlippageOk(slippage_bps) THEN <<>> ELSE <<"slippage_bps">>)

\* ToolParameters(token_address=..., amount=..., slippage_bps=...)
ToolParameters(token_address, amount, slippage_bps) ==
    IF TokenAddressOk(token_address) /\ AmountOk(amount) /\ SlippageOk(slippage_bps)
    THEN Return([token_address |-> token_address, amount |-> amount,
                 slippage_bps |-> slippage_bps])
    ELSE Raise(Exc("ValidationError",
                   ValidationDetails(token_address, amount, slippage_bps)))

(* --------------------------- JSON and HTTP ------------------------------ *)
(* A JSON value is an object with fields, or something else (an array).    *)
(* An HTTP call returns a JSON value or raises requests.RequestException   *)
(* (connection failure, or raise_for_status on an error status).           *)

JsonObject(f) == [json |-> "object", fields |-> f]

JsonArray == [json |-> "array"]

\* dict.get(key, default)
Get(d, key, default) == IF key \in DOMAIN d THEN d[key] ELSE default

\* data.get(...) on the decoded body: AttributeError unless it is an object
NoGetAttribute ==
    Exc("AttributeError", <<"'list'", "object", "has", "no", "attribute", "'get'">>)

\* get_swap_computation without its "except requests.RequestException"
get_swap_computation_without_except(response) ==
    IF ~response.ok THEN response
    ELSE IF response.value.json # "object" THEN Raise(NoGetAttribute)
    ELSE IF ~Get(response.value.fields, "success", FALSE)
    THEN Raise(RaydiumError(<<"Swap", "computation", "failed:">>
               \o Get(response.value.fields, "msg", <<"Unknown", "error">>)))
    ELSE Return(response.value)

\* get_swap_computation without the check of "success"
get_swap_computation_ignoring_success(response) ==
    LET inner ==
          IF ~response.ok THEN response
          ELSE IF response.value.json # "object" THEN Raise(NoGetAttribute)
          ELSE Return(response.value)
    IN IF ~inner.ok /\ IsInstance(inner.exc, "RequestException")
       THEN Raise(RaydiumError(<<"API", "request", "failed:">> \o inner.exc.msg))
       ELSE inner

\* get_swap_computation, given what requests.get / raise_for_status / json() do
get_swap_computation(response) ==
    LET inner ==
          IF ~response.ok THEN response
          ELSE IF response.value.json # "object" THEN Raise(NoGetAttribute)
          ELSE IF ~Get(response.value.fields, "success", FALSE)
          THEN Raise(RaydiumError(<<"Swap", "computation", "failed:">>
                     \o Get(response.value.fields, "msg", <<"Unknown", "error">>)))
          ELSE Return(response.value)
    IN IF ~inner.ok /\ IsInstance(inner.exc, "RequestException")
       THEN Raise(RaydiumError(<<"API", "request", "failed:">> \o inner.exc.msg))
       ELSE inner

\* the JSON body get_swap_transaction posts
TradeData(compute_data, wallet_pubkey) ==
    [swapResponse |-> compute_data, version |-> "V0", txVersion |-> "V0",
     wrapSol |-> TRUE, computeUnitPriceMicroLamports |-> PRIORITY_FEE,
     wallet |-> wallet_pubkey]

\* get_swap_transaction that does not look at the success flag
get_swap_transaction_ignoring_success(response) ==
    IF ~response.ok
    THEN IF IsInstance(response.exc, "RequestException")
         THEN Raise(RaydiumError(<<"API", "request", "failed:">> \o response.exc.msg))
         ELSE response
    ELSE IF response.value.json # "object" THEN Raise(NoGetAttribute)
    ELSE Return(response.value)

\* get_swap_transaction, given what requests.post / raise_for_status / json() do
get_swap_transaction(response) ==
    LET inner ==
          IF ~response.ok THEN response
          ELSE IF response.value.json # "object" THEN Raise(NoGetAttribute)
          ELSE IF ~Get(response.value.fields, "success", FALSE)
          THEN Raise(RaydiumError(<<"Swap", "transaction", "failed:">>
                     \o Get(response.value.fields, "msg", <<"Unknown", "error">>)))
          ELSE Return(response.value)
    IN IF ~inner.ok /\ IsInstance(inner.exc, "RequestException")
       THEN Raise(RaydiumError(<<"API", "request", "failed:">> \o inner.exc.msg))
       ELSE inner

(* ------------------------- process_transaction -------------------------- *)

\* base64.b64decode(transaction_data["transaction"]), VersionedTransaction.from_bytes
DecodeTransaction(transaction_data) ==
    IF "transaction" \notin DOMAIN transaction_data
    THEN Raise(Exc("KeyError", <<"'transaction'">>))
    ELSE IF transaction_data.transaction.encoding # "base64"
    THEN Raise(Exc("ValueError", <<"Incorrect", "padding">>))
    ELSE Return(transaction_data.transaction.tx)

\* MessageV0(header, account_keys, recent_blockhash, instructions, lookups)
MessageV0(header, account_keys, recent_blockhash, instructions, address_table_lookups) ==
    [header |-> header, account_keys |-> account_keys,
     recent_blockhash |-> recent_blockhash, instructions |-> instructions,
     address_table_lookups |-> address_table_lookups]

\* NewMessage that leaves the payload's own blockhash in place
NewMessageKeepingBlockhash(transaction, recent_blockhash) ==
    MessageV0(transaction.message.header, transaction.message.account_keys,
              transaction.message.recent_blockhash, transaction.message.instructions,
              transaction.message.address_table_lookups)

\* the new message with the latest blockhash
NewMessage(transaction, recent_blockhash) ==
    MessageV0(transaction.message.header, transaction.message.account_keys,
              recent_blockhash, transaction.message.instructions,
              transaction.message.address_table_lookups)

INSUFFICIENT_SOL_TEXT ==
    <<"Insufficient", "SOL", "to", "cover", "transaction", "fees", "and", "account",
      "creation", "costs.", "Need", "at", "least", "0.004", "SOL", "extra", "for", "fees.">>

FAILED_TO_SIGN == <<"Failed", "to", "sign", "transaction">>

\* f"Failed to send transaction: {result}" for a response whose value is None
FAILED_TO_SEND == <<"Failed", "to", "send", "transaction:", "SendTransactionResp(None)">>

\* ProcessTransactionExcept narrowed to "except RaydiumError": any other exception
\* leaves process_transaction as it is
ProcessTransactionExceptRaydiumOnly(e) ==
    IF IsInstance(e, "RaydiumError")
    THEN RaydiumError(<<"Transaction", "processing", "failed:">> \o e.msg)
    ELSE e

\* the handler "except Exception as e" of process_transaction: what it raises
ProcessTransactionExcept(e) ==
    LET error_msg == e.msg
    IN IF IsSubstring(<<"insufficient", "lamports">>, error_msg)
       THEN RaydiumError(INSUFFICIENT_SOL_TEXT)
       ELSE RaydiumError(<<"Transaction", "processing", "failed:">> \o error_msg)

(* --------------------------- send_notification -------------------------- *)

\* EnvMissing that takes the empty string for a value ("is None" instead of "not")
EnvMissingUnsetOnly(v) == v = None

\* "if not X" for an environment variable: unset, or the empty string
EnvMissing(v) == v = None \/ v[1] = <<>>

\* send_notification, given the API key and what requests.post / raise_for_status do
send_notification(api_key, response) ==
    LET inner ==
          IF EnvMissing(api_key)
          THEN Raise(RaydiumError(<<"Environment", "Variable", "NASH_PROJECT_API_KEY",
                                    "not", "present.">>))
          ELSE response
    IN IF ~inner.ok /\ IsInstance(inner.exc, "RequestException")
       THEN Raise(RaydiumError(<<"Failed", "to", "send", "notification:">> \o inner.exc.msg))
       ELSE inner

(* ------------------------- format_error_message ------------------------- *)

format_error_message(error_type, details) ==
    <<"raydium_swap_buy_tool", "error:">> \o error_type \o <<"-">> \o details

SWAP_SUCCESSFUL == <<"Swap", "successful">>

MNEMONIC_NOT_PRESENT ==
    <<"Environment", "Variable", "MNEMONIC", "not", "present.", "Did", "you", "set",
      "it", "in", "your", "project's", "secrets?">>

(* ------------------------ inputs and external outcomes ------------------ *)

ValidAddress ==
    <<"A","x","r","i","e","h","R","6","X","w","3","a","d","z","H","o","p","n","v","M","n","7",
      "G","c","p","R","F","c","D","4","1","d","d","p","i","T","W","M","g","6","p","u","m","p">>

\* one character too short: the first 31 characters
ShortAddress == SubSeq(ValidAddress, 1, TOKEN_MIN_LENGTH - 1)

\* one character too long
LongAddress == ValidAddress \o <<"A">>

\* 32 characters, the first outside the base58 alphabet
NonBase58Address == <<"0">> \o ShortAddress

TokenAddresses ==
    {ValidAddress, WSOL_INPUT_MINT, ShortAddress, LongAddress, NonBase58Address}

Dec(c, e) == [coef |-> c, exp |-> e]

\* -1, 0, 0.0000000005, 0.0000000015, 0.004, 10000, 10000.1, 10001, and the long
\* amounts
Amounts ==
    {Dec(-1, 0), Dec(0, 0), Dec(5, 10), Dec(15, 10), Dec(4, 3), Dec(AMOUNT_LE, 0),
     Dec(AMOUNT_LE * 10 + 1, 1), Dec(AMOUNT_LE + 1, 0)} \cup LongAmounts

Slippages == {-1, 0, 50, SLIPPAGE_LE, SLIPPAGE_LE + 1}

ValidMnemonic == <<"abandon", "ability", "able">>

\* a phrase Bip39SeedGenerator rejects
InvalidMnemonic == <<"not", "a", "mnemonic">>

\* os.getenv: unset, the empty string, or a value
MnemonicValues == {None, Some(<<>>), Some(ValidMnemonic), Some(InvalidMnemonic)}

ApiKeyValues == {None, Some(<<"nash-key">>)}

TransportFailure == Exc("RequestException", <<"Connection", "refused">>)

QuoteResponses ==
    {Return(JsonObject([success |-> TRUE, data |-> "quote"])),
     Return(JsonObject([success |-> FALSE, msg |-> <<"ROUTE_NOT_FOUND">>])),
     Return(JsonObject([success |-> FALSE])),
     Return(JsonObject([id |-> "no-success-flag"])),
     Return(JsonArray),
     Raise(TransportFailure)}

\* what the payload carries: the builder's transaction, with the builder's blockhash 0
PayloadTransaction(instructions) ==
    [signatures |-> <<"placeholder">>,
     message |-> [header |-> "header", account_keys |-> <<"wallet", "pool">>,
                  recent_blockhash |-> 0, instructions |-> instructions,
                  address_table_lookups |-> <<"lookup">>]]

GoodPayload ==
    [transaction |-> [encoding |-> "base64", tx |-> PayloadTransaction(<<"swap">>)]]

OtherPayload ==
    [transaction |-> [encoding |-> "base64", tx |-> PayloadTransaction(<<"close">>)]]

\* a payload without its "transaction" field
NoFieldPayload == [id |-> "payload-without-transaction"]

\* a payload whose "transaction" is not base64
UndecodablePayload == [transaction |-> [encoding |-> "garbage"]]

FirstPayloads == {GoodPayload, NoFieldPayload, UndecodablePayload}

\* the payload lists of the builder: a first payload followed by further ones
PayloadLists ==
    {<<>>} \cup
    {<<p>> \o [k \in 1..n |-> OtherPayload] : p \in FirstPayloads, n \in 0..(MaxPayloads - 1)}

BuildResponses ==
    {Return(JsonObject([success |-> TRUE, data |-> l])) : l \in PayloadLists} \cup
    {Return(JsonObject([success |-> TRUE])),
     Return(JsonObject([success |-> FALSE, msg |-> <<"REQ_WALLET_ERROR">>])),
     Return(JsonObject([success |-> FALSE])),
     Return(JsonArray),
     Raise(TransportFailure)}

INSUFFICIENT_LAMPORTS_MSG ==
    <<"Transfer:", "insufficient", "lamports", "1,", "need", "2">>

CAPITAL_INSUFFICIENT_MSG == <<"Insufficient", "funds", "for", "fee">>

CAPITAL_LAMPORTS_MSG == <<"Insufficient", "lamports", "for", "rent">>

\* what get_latest_blockhash may raise
BlockhashErrors ==
    {Exc("RPCException", <<"connection", "reset">>),
     Exc("RPCException", INSUFFICIENT_LAMPORTS_MSG),
     Exc("RPCException", CAPITAL_INSUFFICIENT_MSG)}

\* what send_transaction may raise
SubmitErrors ==
    {Exc("RPCException", <<"Blockhash", "not", "found">>),
     Exc("RPCException", INSUFFICIENT_LAMPORTS_MSG),
     Exc("RPCException", CAPITAL_INSUFFICIENT_MSG),
     Exc("RPCException", CAPITAL_LAMPORTS_MSG)}

TxSignature == <<"5VERv8NMvzbJMEkV8xnrLkEaWRtSz9CosKDYjCJjBRnb">>

\* result.value of send_transaction: a signature or None
SubmitValues == {Some(TxSignature), None}

\* requests.post of the notification: fine, a transport failure, or an API key that
\* cannot be encoded as a header
NotificationResponses ==
    {Return("ok"), Raise(TransportFailure),
     Raise(Exc("UnicodeEncodeError", <<"'latin-1'", "codec", "can't", "encode">>))}

(* ------------------------------- state ---------------------------------- *)

Invocations == 1..NumInvocations

VARIABLES
    environ,          \* os.environ: MNEMONIC, NASH_PROJECT_API_KEY
    latest_blockhash, \* the cluster's latest blockhash
    frame,            \* per invocation: the locals of tool_function and where it is
    calls,            \* per invocation: the external operations done so far, in order
    failures,         \* per invocation: what the steps of the attempts raised, in order
    responses         \* per invocation: what each step got from outside, in order

vars == <<environ, latest_blockhash, frame, calls, failures, responses>>

InitialFrame(token_address, amount, slippage_bps, start) ==
    [pc |-> start,
     token_address |-> token_address, amount |-> amount, slippage_bps |-> slippage_bps,
     params |-> None, solana_keypair |-> None, pub_key |-> None,
     lamports_amount |-> None, quote_request |-> None, quote_response |-> None,
     compute_result |-> None, trade_data |-> None, build_response |-> None,
     swap_response |-> None,
     transactions |-> <<>>, tx_index |-> 0, attempt |-> 0, last_error |-> None,
     recent_blockhash |-> None, transaction |-> None, new_message |-> None,
     new_transaction |-> None, submitted |-> <<>>, tx_hash |-> None,
     result |-> None, raised |-> None]

Arguments ==
    [token_address : TokenAddresses, amount : Amounts, slippage_bps : Slippages]

IdleFrame == InitialFrame(ValidAddress, Dec(4, 3), SLIPPAGE_LE, "idle")

\* the invocations in `active` are called with arguments of `arguments`; the others
\* never run
InitOver(active, arguments) ==
    /\ environ \in [MNEMONIC : MnemonicValues, NASH_PROJECT_API_KEY : ApiKeyValues]
    /\ latest_blockhash = 0
    /\ \E args \in [active -> arguments] :
         frame = [i \in Invocations |->
                    IF i \in active
                    THEN InitialFrame(args[i].token_address, args[i].amount,
                                      args[i].slippage_bps, "validate")
                    ELSE IdleFrame]
    /\ calls = [i \in Invocations |-> <<>>]
    /\ failures = [i \in Invocations |-> <<>>]
    /\ responses = [i \in Invocations |-> <<>>]

InitWith(active) == InitOver(active, Arguments)

Init == InitWith({1})

(* --------------------------- tool_function ------------------------------ *)

VALIDATION_ERROR == <<"Validation", "Error">>
CONFIG_ERROR == <<"Config", "Error">>
SWAP_COMPUTATION_ERROR == <<"Swap", "Computation", "Error">>
TRANSACTION_CREATION_ERROR == <<"Transaction", "Creation", "Error">>
TRANSACTION_ERROR == <<"Transaction", "Error">>
API_ERROR == <<"API", "Error">>
UNKNOWN_ERROR == <<"Unknown", "Error">>
UNEXPECTED_ERROR == <<"Unexpected", "Error">>

\* "return value"
Returns(f, value) == [f EXCEPT !.pc = "done", !.result = Some(value)]

\* OuterExcept narrowed to "except RaydiumError"
OuterExceptRaydiumOnly(f, e) ==
    IF IsInstance(e, "RaydiumError")
    THEN Returns(f, format_error_message(UNEXPECTED_ERROR, e.msg))
    ELSE [f EXCEPT !.pc = "raised", !.raised = Some(e)]

\* the outermost handler, "except Exception as e"; what it does not catch leaves
\* tool_function
OuterExcept(f, e) ==
    IF IsInstance(e, "Exception")
    THEN Returns(f, format_error_message(UNEXPECTED_ERROR, e.msg))
    ELSE [f EXCEPT !.pc = "raised", !.raised = Some(e)]

\* str(x) of an optional text inside an f-string
Str(x) == IF x = None THEN <<"None">> ELSE x[1]

\* NextAttempt that gives every payload its own five attempts: an exhausted budget
\* goes on to the next payload
NextAttemptNextPayload(f) ==
    IF f.attempt < RETRY_BUDGET
    THEN [f EXCEPT !.attempt = @ + 1, !.pc = "blockhash",
                   !.recent_blockhash = None, !.transaction = None,
                   !.new_message = None, !.new_transaction = None]
    ELSE IF f.tx_index < Len(f.transactions)
    THEN [f EXCEPT !.tx_index = @ + 1, !.last_error = None, !.attempt = 1,
                   !.pc = "blockhash", !.recent_blockhash = None,
                   !.transaction = None, !.new_message = None,
                   !.new_transaction = None]
    ELSE Returns(f, format_error_message(TRANSACTION_ERROR,
                       <<"Failed", "after", "5", "retries:">> \o Str(f.last_error)))

\* NextAttempt with one attempt too many ("<=" for "<")
NextAttemptOffByOne(f) ==
    IF f.attempt <= RETRY_BUDGET
    THEN [f EXCEPT !.attempt = @ + 1, !.pc = "blockhash",
                   !.recent_blockhash = None, !.transaction = None,
                   !.new_message = None, !.new_transaction = None]
    ELSE Returns(f, format_error_message(TRANSACTION_ERROR,
                       <<"Failed", "after", "5", "retries:">> \o Str(f.last_error)))

\* NextAttempt whose exhausted budget falls through to the next payload instead of
\* returning, and to the return after the outer loop when no payload is left
NextAttemptFallingThrough(f) ==
    IF f.attempt < RETRY_BUDGET
    THEN [f EXCEPT !.attempt = @ + 1, !.pc = "blockhash",
                   !.recent_blockhash = None, !.transaction = None,
                   !.new_message = None, !.new_transaction = None]
    ELSE IF f.tx_index < Len(f.transactions)
    THEN [f EXCEPT !.tx_index = @ + 1, !.last_error = None, !.attempt = 1,
                   !.pc = "blockhash", !.recent_blockhash = None,
                   !.transaction = None, !.new_message = None,
                   !.new_transaction = None]
    ELSE Returns(f, format_error_message(UNKNOWN_ERROR,
                                         <<"No", "transactions", "processed">>))

\* NextAttempt that starts a retry from a new quote
NextAttemptRequoting(f) ==
    IF f.attempt < RETRY_BUDGET
    THEN [f EXCEPT !.attempt = @ + 1,
                   !.pc = IF f.attempt = 0 THEN "blockhash" ELSE "quote",
                   !.recent_blockhash = None, !.transaction = None,
                   !.new_message = None, !.new_transaction = None]
    ELSE Returns(f, format_error_message(TRANSACTION_ERROR,
                       <<"Failed", "after", "5", "retries:">> \o Str(f.last_error)))

\* NextAttempt with the blockhash fetch hoisted out of the loop: a later attempt
\* goes on with the blockhash of the first
NextAttemptReusingBlockhash(f) ==
    IF f.attempt < RETRY_BUDGET
    THEN IF f.recent_blockhash = None
         THEN [f EXCEPT !.attempt = @ + 1, !.pc = "blockhash"]
         ELSE [f EXCEPT !.attempt = @ + 1, !.pc = "decode", !.transaction = None,
                        !.new_message = None, !.new_transaction = None]
    ELSE Returns(f, format_error_message(TRANSACTION_ERROR,
                       <<"Failed", "after", "5", "retries:">> \o Str(f.last_error)))

\* the head of "for _ in range(5)": the next attempt, or the return after the loop
NextAttempt(f) ==
    IF f.attempt < RETRY_BUDGET
    THEN [f EXCEPT !.attempt = @ + 1, !.pc = "blockhash",
                   !.recent_blockhash = None, !.transaction = None,
                   !.new_message = None, !.new_transaction = None]
    ELSE Returns(f, format_error_message(TRANSACTION_ERROR,
                       <<"Failed", "after", "5", "retries:">> \o Str(f.last_error)))

\* "for tx_data in transactions": the first payload, or the return after the loop
ProcessTransactions(f) ==
    IF Len(f.transactions) >= 1
    THEN NextAttempt([f EXCEPT !.tx_index = 1, !.last_error = None, !.attempt = 0])
    ELSE Returns(f, format_error_message(UNKNOWN_ERROR,
                                         <<"No", "transactions", "processed">>))

\* RetryExcept without the insufficient-funds return: every failure is retried
RetryExceptAlwaysRetries(f, e) ==
    IF IsInstance(e, "RaydiumError")
    THEN NextAttempt([f EXCEPT !.last_error = Some(e.msg)])
    ELSE OuterExcept(f, e)

\* RetryExcept that keeps the first error instead of the last
RetryExceptKeepsFirstError(f, e) ==
    IF IsInstance(e, "RaydiumError")
    THEN LET last_error == IF f.last_error = None THEN e.msg ELSE f.last_error[1]
         IN IF IsSubstring(<<"insufficient">>, Lower(last_error))
            THEN Returns([f EXCEPT !.last_error = Some(last_error)],
                         format_error_message(TRANSACTION_ERROR, last_error))
            ELSE NextAttempt([f EXCEPT !.last_error = Some(last_error)])
    ELSE OuterExcept(f, e)

\* RetryExcept that looks for "insufficient" without lower()
RetryExceptCaseSensitive(f, e) ==
    IF IsInstance(e, "RaydiumError")
    THEN LET last_error == e.msg
         IN IF IsSubstring(<<"insufficient">>, last_error)
            THEN Returns([f EXCEPT !.last_error = Some(last_error)],
                         format_error_message(TRANSACTION_ERROR, last_error))
            ELSE NextAttempt([f EXCEPT !.last_error = Some(last_error)])
    ELSE OuterExcept(f, e)

\* "except RaydiumError as e" of the retry loop, for what process_transaction raised
RetryExcept(f, e) ==
    IF IsInstance(e, "RaydiumError")
    THEN LET last_error == e.msg
         IN IF IsSubstring(<<"insufficient">>, Lower(last_error))
            THEN Returns([f EXCEPT !.last_error = Some(last_error)],
                         format_error_message(TRANSACTION_ERROR, last_error))
            ELSE NextAttempt([f EXCEPT !.last_error = Some(last_error)])
    ELSE OuterExcept(f, e)

\* a step of process_transaction raised e
AttemptFailed(f, e) == RetryExcept(f, ProcessTransactionExcept(e))

Log(i, op) == calls' = [calls EXCEPT ![i] = Append(@, op)]

LogFailure(i, step, e) ==
    failures' = [failures EXCEPT
                   ![i] = Append(@, [step |-> step, attempt |-> frame[i].attempt,
                                     msg |-> e.msg])]

\* what a step got from outside: the outcome of its call, or nothing for a local step
Respond(i, r) == responses' = [responses EXCEPT ![i] = Append(@, r)]

LocalStep == Return("local")

\* Validate whose handler swallows the validation error instead of returning
ValidateWithoutReturn(i) ==
    /\ frame[i].pc = "validate"
    /\ LET f == frame[i]
       IN frame' = [frame EXCEPT ![i] =
            [f EXCEPT !.params = Some([token_address |-> f.token_address,
                                       amount |-> f.amount,
                                       slippage_bps |-> f.slippage_bps]),
                      !.pc = "config"]]
    /\ Respond(i, LocalStep)
    /\ UNCHANGED <<environ, latest_blockhash, calls, failures>>

\* Validate with the check of MNEMONIC moved before the validation
ValidateAfterMnemonicCheck(i) ==
    /\ frame[i].pc = "validate"
    /\ LET f == frame[i]
           r == ToolParameters(f.token_address, f.amount, f.slippage_bps)
       IN frame' = [frame EXCEPT ![i] =
            IF EnvMissing(environ.MNEMONIC)
            THEN Returns(f, format_error_message(CONFIG_ERROR, MNEMONIC_NOT_PRESENT))
            ELSE IF r.ok THEN [f EXCEPT !.params = Some(r.value), !.pc = "config"]
            ELSE IF IsInstance(r.exc, "ValueError")
            THEN Returns(f, format_error_message(VALIDATION_ERROR, r.exc.msg))
            ELSE OuterExcept(f, r.exc)]
    /\ Respond(i, LocalStep)
    /\ UNCHANGED <<environ, latest_blockhash, calls, failures>>

\* lines 199-205
Validate(i) ==
    /\ frame[i].pc = "validate"
    /\ LET f == frame[i]
           r == ToolParameters(f.token_address, f.amount, f.slippage_bps)
       IN frame' = [frame EXCEPT ![i] =
            IF r.ok THEN [f EXCEPT !.params = Some(r.value), !.pc = "config"]
            ELSE IF IsInstance(r.exc, "ValueError")
            THEN Returns(f, format_error_message(VALIDATION_ERROR, r.exc.msg))
            ELSE OuterExcept(f, r.exc)]
    /\ Respond(i, LocalStep)
    /\ UNCHANGED <<environ, latest_blockhash, calls, failures>>

\* Keypair.from_seed_and_derivation_path(Bip39SeedGenerator(MNEMONIC).Generate(), path)
DeriveKeypair(mnemonic) ==
    IF mnemonic = ValidMnemonic
    THEN Return([seed |-> mnemonic, path |-> "m/44'/501'/0'/0'"])
    ELSE Raise(Exc("ValueError", <<"Invalid", "mnemonic">>))

\* lines 207-221
GetKeypair(i) ==
    /\ frame[i].pc = "config"
    /\ LET f == frame[i]
           MNEMONIC == environ.MNEMONIC
           k == DeriveKeypair(MNEMONIC[1])
       IN frame' = [frame EXCEPT ![i] =
            IF EnvMissing(MNEMONIC)
            THEN Returns(f, format_error_message(CONFIG_ERROR, MNEMONIC_NOT_PRESENT))
            ELSE IF ~k.ok THEN OuterExcept(f, k.exc)
            ELSE [f EXCEPT !.solana_keypair = Some(k.value),
                           !.pub_key = Some(<<"pubkey", "of">> \o k.value.seed),
                           !.lamports_amount = Some(ToLamports(f.params[1].amount)),
                           !.pc = "quote"]]
    /\ Respond(i, Return(environ.MNEMONIC))
    /\ UNCHANGED <<environ, latest_blockhash, calls, failures>>

\* the query of the quoting endpoint
QuoteRequest(token_address, lamports_amount, slippage_bps) ==
    [inputMint |-> WSOL_INPUT_MINT, outputMint |-> token_address,
     amount |-> lamports_amount, slippageBps |-> slippage_bps, txVersion |-> "V0"]

\* lines 223-231
GetSwapComputation(i) ==
    /\ frame[i].pc = "quote"
    /\ \E response \in QuoteResponses :
         /\ LET f == [frame[i] EXCEPT !.quote_request =
                         Some(QuoteRequest(frame[i].params[1].token_address,
                                           frame[i].lamports_amount[1],
                                           frame[i].params[1].slippage_bps)),
                                      !.quote_response = Some(response)]
                r == get_swap_computation(response)
            IN frame' = [frame EXCEPT ![i] =
                 IF r.ok THEN [f EXCEPT !.compute_result = Some(r.value), !.pc = "build"]
                 ELSE IF IsInstance(r.exc, "RaydiumError")
                 THEN Returns(f, format_error_message(SWAP_COMPUTATION_ERROR, r.exc.msg))
                 ELSE OuterExcept(f, r.exc)]
         /\ Respond(i, response)
    /\ Log(i, "quote")
    /\ UNCHANGED <<environ, latest_blockhash, failures>>

\* NoTransactions with the check left out
NoTransactionsUnchecked(transactions) == FALSE

\* "if not transactions": a missing or empty list
NoTransactions(transactions) == transactions = <<>>

\* lines 233-245, and the entry of the loops of lines 247-249
GetSwapTransaction(i) ==
    /\ frame[i].pc = "build"
    /\ \E response \in BuildResponses :
         /\ LET f == [frame[i] EXCEPT
                         !.trade_data = Some(TradeData(frame[i].compute_result[1],
                                                       frame[i].pub_key[1])),
                         !.build_response = Some(response)]
                r == get_swap_transaction(response)
                transactions == Get(r.value.fields, "data", <<>>)
            IN frame' = [frame EXCEPT ![i] =
                 IF ~r.ok
                 THEN IF IsInstance(r.exc, "RaydiumError")
                      THEN Returns(f, format_error_message(TRANSACTION_CREATION_ERROR,
                                                           r.exc.msg))
                      ELSE OuterExcept(f, r.exc)
                 ELSE IF NoTransactions(transactions)
                 THEN Returns([f EXCEPT !.swap_response = Some(r.value)],
                              format_error_message(API_ERROR,
                                  <<"No", "transaction", "data", "received">>))
                 ELSE ProcessTransactions([f EXCEPT !.swap_response = Some(r.value),
                                                    !.transactions = transactions])]
         /\ Respond(i, response)
    /\ Log(i, "build")
    /\ UNCHANGED <<environ, latest_blockhash, failures>>

\* lines 121-124: Client(SOLANA_RPC_URL), get_latest_blockhash()
FetchBlockhash(i) ==
    /\ frame[i].pc = "blockhash"
    /\ Log(i, "blockhash")
    /\ \/ /\ latest_blockhash' = latest_blockhash + 1
          /\ frame' = [frame EXCEPT ![i] =
               [@ EXCEPT !.recent_blockhash = Some(latest_blockhash + 1),
                         !.pc = "decode"]]
          /\ Respond(i, Return(latest_blockhash + 1))
          /\ UNCHANGED <<environ, failures>>
       \/ \E e \in BlockhashErrors :
            /\ frame' = [frame EXCEPT ![i] = AttemptFailed(@, e)]
            /\ LogFailure(i, "blockhash", e)
            /\ Respond(i, Raise(e))
            /\ UNCHANGED <<environ, latest_blockhash>>

\* lines 126-137
DecodeAndSplice(i) ==
    /\ frame[i].pc = "decode"
    /\ LET f == frame[i]
           r == DecodeTransaction(f.transactions[f.tx_index])
       IN IF r.ok
          THEN /\ frame' = [frame EXCEPT ![i] =
                    [f EXCEPT !.transaction = Some(r.value),
                              !.new_message =
                                  Some(NewMessage(r.value, f.recent_blockhash[1])),
                              !.pc = "sign"]]
               /\ UNCHANGED failures
          ELSE /\ frame' = [frame EXCEPT ![i] = AttemptFailed(f, r.exc)]
               /\ LogFailure(i, "decode", r.exc)
    /\ Log(i, "decode")
    /\ Respond(i, LocalStep)
    /\ UNCHANGED <<environ, latest_blockhash>>

\* lines 139-142: VersionedTransaction(new_message, [solana_keypair])
Sign(i) ==
    /\ frame[i].pc = "sign"
    /\ \E signatures \in {<<>>, <<frame[i].solana_keypair[1]>>} :
         /\ LET f == [frame[i] EXCEPT !.new_transaction =
                         Some([message |-> frame[i].new_message[1],
                               signatures |-> signatures])]
            IN IF signatures = <<>>
               THEN /\ frame' = [frame EXCEPT ![i] =
                         AttemptFailed(f, RaydiumError(FAILED_TO_SIGN))]
                    /\ LogFailure(i, "sign", RaydiumError(FAILED_TO_SIGN))
               ELSE /\ frame' = [frame EXCEPT ![i] = [f EXCEPT !.pc = "sleep"]]
                    /\ UNCHANGED failures
         /\ Respond(i, Return(signatures))
    /\ Log(i, "sign")
    /\ UNCHANGED <<environ, latest_blockhash>>

\* Sleep with the delay left out
SleepNotTaken(i) ==
    /\ frame[i].pc = "sleep"
    /\ frame' = [frame EXCEPT ![i] = [@ EXCEPT !.pc = "submit"]]
    /\ Respond(i, LocalStep)
    /\ UNCHANGED <<environ, latest_blockhash, calls, failures>>

\* Sleep with new_transaction kept in a module-level global: the invocation that
\* waits overwrites the transaction of the others
SleepSharingTransaction(i) ==
    /\ frame[i].pc = "sleep"
    /\ frame' = [j \in Invocations |->
                   IF j = i THEN [frame[i] EXCEPT !.pc = "submit"]
                   ELSE [frame[j] EXCEPT !.new_transaction = frame[i].new_transaction]]
    /\ Log(i, "sleep")
    /\ Respond(i, LocalStep)
    /\ UNCHANGED <<environ, latest_blockhash, failures>>

\* lines 144-145: time.sleep(0.5)
Sleep(i) ==
    /\ frame[i].pc = "sleep"
    /\ frame' = [frame EXCEPT ![i] = [@ EXCEPT !.pc = "submit"]]
    /\ Log(i, "sleep")
    /\ Respond(i, LocalStep)
    /\ UNCHANGED <<environ, latest_blockhash, failures>>

\* lines 147-152 and 251-252: send_transaction, and "if tx_hash"
SendTransaction(i) ==
    /\ frame[i].pc = "submit"
    /\ Log(i, "submit")
    /\ LET f == [frame[i] EXCEPT !.submitted = Append(@, frame[i].new_transaction[1])]
       IN \/ \E value \in SubmitValues :
               /\ IF value = None
                  THEN /\ frame' = [frame EXCEPT ![i] =
                            AttemptFailed(f, RaydiumError(FAILED_TO_SEND))]
                       /\ LogFailure(i, "submit", RaydiumError(FAILED_TO_SEND))
                  ELSE /\ frame' = [frame EXCEPT ![i] =
                            IF value[1] # <<>>
                            THEN [f EXCEPT !.tx_hash = value, !.pc = "notify"]
                            ELSE NextAttempt([f EXCEPT !.tx_hash = value])]
                       /\ UNCHANGED failures
               /\ Respond(i, Return(value))
          \/ \E e \in SubmitErrors :
               /\ frame' = [frame EXCEPT ![i] = AttemptFailed(f, e)]
               /\ LogFailure(i, "submit", e)
               /\ Respond(i, Raise(e))
    /\ UNCHANGED <<environ, latest_blockhash>>

\* the handler "except RaydiumError: pass" of line 257
NotificationExceptCatches(e) == IsInstance(e, "RaydiumError")

\* lines 253-260: send_notification, and "return 'Swap successful'"
SendNotification(i) ==
    /\ frame[i].pc = "notify"
    /\ \E response \in NotificationResponses :
         /\ LET f == frame[i]
                r == send_notification(environ.NASH_PROJECT_API_KEY, response)
            IN frame' = [frame EXCEPT ![i] =
                 IF r.ok \/ NotificationExceptCatches(r.exc)
                 THEN Returns(f, SWAP_SUCCESSFUL)
                 ELSE RetryExcept(f, r.exc)]
         /\ Respond(i, Return([api_key |-> environ.NASH_PROJECT_API_KEY,
                               response |-> response]))
    /\ Log(i, "notify")
    /\ UNCHANGED <<environ, latest_blockhash, failures>>

Next ==
    \E i \in Invocations :
        \/ Validate(i)
        \/ GetKeypair(i)
        \/ GetSwapComputation(i)
        \/ GetSwapTransaction(i)
        \/ FetchBlockhash(i)
        \/ DecodeAndSplice(i)
        \/ Sign(i)
        \/ Sleep(i)
        \/ SendTransaction(i)
        \/ SendNotification(i)

Spec == Init /\ [][Next]_vars

(* ------------------------------ properties ------------------------------ *)

Active(i) == frame[i].pc # "idle"

Returned(i) == frame[i].pc = "done"

ResultOf(i) == frame[i].result[1]

\* the number of calls of an external operation
Count(i, op) == Cardinality({k \in DOMAIN calls[i] : calls[i][k] = op})

ErrorCategories ==
    {VALIDATION_ERROR, CONFIG_ERROR, SWAP_COMPUTATION_ERROR, TRANSACTION_CREATION_ERROR,
     TRANSACTION_ERROR, API_ERROR, UNKNOWN_ERROR, UNEXPECTED_ERROR}

\* the text every error result begins with, for a category
Tagged(category) == <<"raydium_swap_buy_tool", "error:">> \o category \o <<"-">>

HasCategory(i, category) == Returned(i) /\ StartsWith(ResultOf(i), Tagged(category))

\* the steps of invocation i
Step(i) ==
    \/ Validate(i) \/ GetKeypair(i) \/ GetSwapComputation(i) \/ GetSwapTransaction(i)
    \/ FetchBlockhash(i) \/ DecodeAndSplice(i) \/ Sign(i) \/ Sleep(i)
    \/ SendTransaction(i) \/ SendNotification(i)

\* C1: an invocation never ends by raising: whatever the external calls do, it is
\* never left by an exception, it can always take its next step until it has
\* returned, and what it returns is exactly "Swap successful" or an error tagged
\* "<category> - <details>" (after the tool's fixed prefix) with one of the eight
\* categories.
C1_NeverRaises ==
    \A i \in Invocations :
        /\ frame[i].pc # "raised"
        /\ frame[i].raised = None
        /\ frame[i].result # None <=> Returned(i)
        /\ (Active(i) /\ ~Returned(i)) => ENABLED Step(i)
        /\ Returned(i) =>
             \/ ResultOf(i) = SWAP_SUCCESSFUL
             \/ \E category \in ErrorCategories :
                  \E details \in {SubSeq(ResultOf(i), Len(Tagged(category)) + 1,
                                         Len(ResultOf(i)))} :
                      ResultOf(i) = <<"raydium_swap_buy_tool", "error:">>
                                      \o category \o <<"-">> \o details

\* an exception that is no RaydiumError reached the outermost handler after a
\* submission, and came back as an Unexpected Error
C1_Witness ==
    \E i \in Invocations :
        /\ HasCategory(i, UNEXPECTED_ERROR)
        /\ Count(i, "submit") = 1
        /\ Count(i, "notify") = 1

\* validation failed: the invocation is past it without validated parameters
ValidationFailed(i) ==
    Active(i) /\ frame[i].pc # "validate" /\ frame[i].params = None

\* C2: a failed validation returns a Validation Error, and when it returns no
\* external operation has happened and no signing key was derived.
C2_ValidationBeforeAnyCall ==
    \A i \in Invocations :
        /\ ValidationFailed(i) => HasCategory(i, VALIDATION_ERROR)
        /\ HasCategory(i, VALIDATION_ERROR) =>
             /\ calls[i] = <<>>
             /\ failures[i] = <<>>
             /\ frame[i].solana_keypair = None
        /\ ~ToolParameters(frame[i].token_address, frame[i].amount,
                           frame[i].slippage_bps).ok
             => Count(i, "quote") = 0 /\ frame[i].solana_keypair = None

\* the wrapped-SOL address with a good amount, slippage and mnemonic is rejected
C2_Witness ==
    \E i \in Invocations :
        /\ HasCategory(i, VALIDATION_ERROR)
        /\ frame[i].token_address = WSOL_INPUT_MINT
        /\ frame[i].amount = Dec(4, 3)
        /\ frame[i].slippage_bps = SLIPPAGE_LE
        /\ environ.MNEMONIC = Some(ValidMnemonic)

\* 0 < a <= 10000, by cross-multiplication (a coefficient below 2^31 with six or more
\* decimals is below 10000)
AmountInRange(a) ==
    IF IsLong(a)
    THEN /\ \E k \in DOMAIN a.digits : a.digits[k] # 0
         /\ \/ DigitsValue(WholeDigits(a)) < 10000
            \/ /\ DigitsValue(WholeDigits(a)) = 10000
               /\ \A k \in DOMAIN FractionDigits(a) : FractionDigits(a)[k] = 0
    ELSE /\ a.coef > 0
         /\ a.exp >= 6 \/ a.coef <= 10000 * Pow10(a.exp)

SlippageInRange(s) == 0 < s /\ s <= 1000

WellFormedAddress(t) ==
    /\ Len(t) \in 32..44
    /\ \A k \in 1..Len(t) : t[k] \in Base58Alphabet

\* C3: validation fails for the wrapped-SOL address, for an amount outside (0, 10000]
\* and for a slippage outside (0, 1000]; it passes for a well-formed other address
\* with both in range, the upper bounds included.
C3_ValidationExact ==
    \A i \in Invocations :
        Active(i) /\ frame[i].pc # "validate" =>
          LET t == frame[i].token_address
              a == frame[i].amount
              s == frame[i].slippage_bps
          IN /\ (t = WSOL_INPUT_MINT \/ ~AmountInRange(a) \/ ~SlippageInRange(s))
                  => HasCategory(i, VALIDATION_ERROR)
             /\ (WellFormedAddress(t) /\ t # WSOL_INPUT_MINT /\ AmountInRange(a)
                   /\ SlippageInRange(s))
                  => /\ ~HasCategory(i, VALIDATION_ERROR)
                     /\ frame[i].params =
                          Some([token_address |-> t, amount |-> a, slippage_bps |-> s])

\* the upper bounds 10000 and 1000 pass validation
C3_Witness ==
    \E i \in Invocations :
        /\ frame[i].params # None
        /\ frame[i].amount = Dec(10000, 0)
        /\ frame[i].slippage_bps = 1000

\* C4: a valid request with MNEMONIC unset or empty returns a string beginning
\* "raydium_swap_buy_tool error: Config Error", with no network activity before.
C4_ConfigErrorBeforeNetwork ==
    \A i \in Invocations :
        (/\ frame[i].params # None
         /\ frame[i].pc # "config"
         /\ environ.MNEMONIC \in {None, Some(<<>>)})
          => /\ Returned(i)
             /\ StartsWith(ResultOf(i),
                           <<"raydium_swap_buy_tool", "error:", "Config", "Error">>)
             /\ calls[i] = <<>>
             /\ frame[i].solana_keypair = None

\* a valid request returned with MNEMONIC set to the empty string
C4_Witness ==
    \E i \in Invocations :
        /\ Returned(i)
        /\ frame[i].params # None
        /\ environ.MNEMONIC = Some(<<>>)

\* the quoting call failed in transport, or its body says success = false
QuoteFailed(i) ==
    /\ frame[i].quote_response # None
    /\ LET r == frame[i].quote_response[1]
       IN IF r.ok
          THEN /\ r.value.json = "object"
               /\ "success" \in DOMAIN r.value.fields
               /\ r.value.fields.success = FALSE
          ELSE r.exc.cls = "RequestException"

\* C5 as stated: after a failed quote the result string starts with
\* "Swap Computation Error", the quote was called once and nothing else was called.
C5_AsStated ==
    \A i \in Invocations :
        QuoteFailed(i) =>
            /\ Returned(i)
            /\ StartsWith(ResultOf(i), SWAP_COMPUTATION_ERROR)
            /\ calls[i] = <<"quote">>

\* C5, amended: after a failed quote the result string starts with
\* "raydium_swap_buy_tool error: Swap Computation Error", the quoting endpoint was
\* called exactly once and no build, blockhash fetch, signing, submission or
\* notification happened.
C5_QuoteFailureAborts ==
    \A i \in Invocations :
        QuoteFailed(i) =>
            /\ Returned(i)
            /\ StartsWith(ResultOf(i), <<"raydium_swap_buy_tool", "error:", "Swap",
                                         "Computation", "Error">>)
            /\ calls[i] = <<"quote">>
            /\ failures[i] = <<>>
            /\ frame[i].build_response = None

\* a quote that failed in transport has returned
C5_Witness ==
    \E i \in Invocations :
        /\ Returned(i)
        /\ frame[i].quote_response = Some(Raise(TransportFailure))

\* the build call answered with success = false
BuildFailed(i) ==
    /\ frame[i].build_response # None
    /\ LET r == frame[i].build_response[1]
       IN /\ r.ok
          /\ r.value.json = "object"
          /\ "success" \in DOMAIN r.value.fields
          /\ r.value.fields.success = FALSE

\* the quote call answered with success = true
QuoteSucceeded(i) ==
    /\ frame[i].quote_response # None
    /\ LET r == frame[i].quote_response[1]
       IN /\ r.ok
          /\ r.value.json = "object"
          /\ "success" \in DOMAIN r.value.fields
          /\ r.value.fields.success = TRUE

\* C6 as stated: after a build that reports success = false the result starts with
\* "Transaction Creation Error" and nothing follows the build call; the build call
\* follows a successful quote.
C6_AsStated ==
    \A i \in Invocations :
        /\ BuildFailed(i) =>
             /\ Returned(i)
             /\ StartsWith(ResultOf(i), TRANSACTION_CREATION_ERROR)
             /\ calls[i] = <<"quote", "build">>
        /\ Count(i, "build") > 0 => QuoteSucceeded(i)

\* C6, amended: after a build that reports success = false the result starts with
\* "raydium_swap_buy_tool error: Transaction Creation Error" and no blockhash fetch,
\* signing, submission or notification happened; the build endpoint is called only
\* after a quote call that reported success.
C6_BuildFailureAborts ==
    \A i \in Invocations :
        /\ BuildFailed(i) =>
             /\ Returned(i)
             /\ StartsWith(ResultOf(i), <<"raydium_swap_buy_tool", "error:",
                                          "Transaction", "Creation", "Error">>)
             /\ calls[i] = <<"quote", "build">>
             /\ failures[i] = <<>>
        /\ \A k \in DOMAIN calls[i] :
             calls[i][k] = "build" =>
                /\ QuoteSucceeded(i)
                /\ frame[i].compute_result # None
                /\ \E j \in 1..(k - 1) : calls[i][j] = "quote"

\* a build that reported success = false has returned
C6_Witness ==
    \E i \in Invocations : Returned(i) /\ BuildFailed(i)

\* failure j of invocation i is a submission that failed with "insufficient lamports"
SubmitInsufficient(i, j) ==
    /\ failures[i][j].step = "submit"
    /\ IsSubstring(<<"insufficient", "lamports">>, failures[i][j].msg)

\* the loop stopped at failure j: it is the last failure, its attempt is the last
\* attempt, its submission is the last call, and the invocation has returned
StoppedAt(i, j) ==
    /\ j = Len(failures[i])
    /\ frame[i].attempt = failures[i][j].attempt
    /\ Count(i, "blockhash") = failures[i][j].attempt
    /\ calls[i][Len(calls[i])] = "submit"
    /\ Returned(i)

\* C7 as stated: a submission failing with "insufficient lamports" stops the loop at
\* once and the result is a Transaction Error carrying that failure message.
C7_AsStated ==
    \A i \in Invocations : \A j \in DOMAIN failures[i] :
        SubmitInsufficient(i, j) =>
            /\ StoppedAt(i, j)
            /\ HasCategory(i, TRANSACTION_ERROR)
            /\ IsSubstring(failures[i][j].msg, ResultOf(i))

\* C7, amended: a submission failing with "insufficient lamports" in attempt k stops
\* the loop at once, with no attempt k+1..5, and the result is a Transaction Error
\* whose detail is the fixed text "Insufficient SOL to cover transaction fees and
\* account creation costs. Need at least 0.004 SOL extra for fees.", which replaces
\* the failure message.
C7_InsufficientFundsStops ==
    \A i \in Invocations : \A j \in DOMAIN failures[i] :
        SubmitInsufficient(i, j) =>
            /\ StoppedAt(i, j)
            /\ ResultOf(i) = <<"raydium_swap_buy_tool", "error:", "Transaction",
                               "Error", "-">> \o INSUFFICIENT_SOL_TEXT

\* the first submission failed with "insufficient lamports"
C7_Witness ==
    \E i \in Invocations :
        /\ Len(failures[i]) = 1
        /\ SubmitInsufficient(i, 1)
        /\ failures[i][1].attempt = 1

\* five failures, each a submission, none mentioning "insufficient" in any case
FiveSubmitFailures(i) ==
    /\ Len(failures[i]) = 5
    /\ \A j \in 1..5 :
         /\ failures[i][j].step = "submit"
         /\ ~IsSubstring(<<"insufficient">>, Lower(failures[i][j].msg))

\* C8: after five submission failures without insufficient funds exactly five
\* attempts were made and the result is a Transaction Error with "Failed after 5
\* retries:" followed by the error text of the fifth failure.
C8_RetryExhaustion ==
    \A i \in Invocations :
        FiveSubmitFailures(i) =>
            /\ Returned(i)
            /\ frame[i].attempt = 5
            /\ Count(i, "submit") = 5
            /\ Count(i, "blockhash") = 5
            /\ ResultOf(i) =
                 <<"raydium_swap_buy_tool", "error:", "Transaction", "Error", "-",
                   "Failed", "after", "5", "retries:", "Transaction", "processing",
                   "failed:">> \o failures[i][5].msg

\* five submission failures, the last with another text than the fourth and the first
C8_Witness ==
    \E i \in Invocations :
        /\ FiveSubmitFailures(i)
        /\ failures[i][5].msg # failures[i][4].msg
        /\ failures[i][5].msg # failures[i][1].msg

\* C9 as stated: once a submission returned a transaction identifier the result is
\* exactly "Swap successful", whatever the notification call does.
C9_AsStated ==
    \A i \in Invocations :
        (frame[i].tx_hash # None /\ frame[i].pc # "notify") =>
            /\ Returned(i)
            /\ ResultOf(i) = SWAP_SUCCESSFUL

\* the build call answered success = true with a missing or empty payload list
BuildEmpty(i) ==
    /\ frame[i].build_response # None
    /\ LET r == frame[i].build_response[1]
       IN /\ r.ok
          /\ r.value.json = "object"
          /\ "success" \in DOMAIN r.value.fields
          /\ r.value.fields.success = TRUE
          /\ "data" \in DOMAIN r.value.fields => r.value.fields.data = <<>>

\* C10: a successful build without payloads returns the API Error "No transaction
\* data received", and no blockhash fetch, signing or submission happens.
C10_NoPayloadsIsApiError ==
    \A i \in Invocations :
        BuildEmpty(i) =>
            /\ Returned(i)
            /\ ResultOf(i) = <<"raydium_swap_buy_tool", "error:", "API", "Error", "-",
                               "No", "transaction", "data", "received">>
            /\ calls[i] = <<"quote", "build">>
            /\ failures[i] = <<>>

\* a successful build with an empty payload list has returned
C10_Witness ==
    \E i \in Invocations :
        /\ Returned(i)
        /\ BuildEmpty(i)
        /\ "data" \in DOMAIN frame[i].build_response[1].value.fields

\* the positions of the calls of an external operation
Positions(i, op) == {k \in DOMAIN calls[i] : calls[i][k] = op}

\* C11 as stated: a notification is attempted only after a submission of the same
\* invocation returned an identifier, at most once per invocation, and never by an
\* invocation that returns an error string.
C11_AsStated ==
    \A i \in Invocations :
        /\ Count(i, "notify") <= 1
        /\ \A k \in Positions(i, "notify") :
               /\ k > 1
               /\ calls[i][k - 1] = "submit"
               /\ frame[i].tx_hash # None
               /\ frame[i].tx_hash[1] # <<>>
        /\ (Returned(i) /\ ResultOf(i) # SWAP_SUCCESSFUL) => Count(i, "notify") = 0

\* tool_function as a function of what its own steps got from outside: the frame
\* after one more step that got r, computed from the frame of the invocation alone
AloneStep(f, r) ==
    CASE f.pc = "validate" ->
           LET v == ToolParameters(f.token_address, f.amount, f.slippage_bps)
           IN IF v.ok THEN [f EXCEPT !.params = Some(v.value), !.pc = "config"]
              ELSE IF IsInstance(v.exc, "ValueError")
              THEN Returns(f, format_error_message(VALIDATION_ERROR, v.exc.msg))
              ELSE OuterExcept(f, v.exc)
      [] f.pc = "config" ->
           LET MNEMONIC == r.value
               k == DeriveKeypair(MNEMONIC[1])
           IN IF EnvMissing(MNEMONIC)
              THEN Returns(f, format_error_message(CONFIG_ERROR, MNEMONIC_NOT_PRESENT))
              ELSE IF ~k.ok THEN OuterExcept(f, k.exc)
              ELSE [f EXCEPT !.solana_keypair = Some(k.value),
                             !.pub_key = Some(<<"pubkey", "of">> \o k.value.seed),
                             !.lamports_amount = Some(ToLamports(f.params[1].amount)),
                             !.pc = "quote"]
      [] f.pc = "quote" ->
           LET g == [f EXCEPT !.quote_request =
                        Some(QuoteRequest(f.params[1].token_address,
                                          f.lamports_amount[1],
                                          f.params[1].slippage_bps)),
                              !.quote_response = Some(r)]
               q == get_swap_computation(r)
           IN IF q.ok THEN [g EXCEPT !.compute_result = Some(q.value), !.pc = "build"]
              ELSE IF IsInstance(q.exc, "RaydiumError")
              THEN Returns(g, format_error_message(SWAP_COMPUTATION_ERROR, q.exc.msg))
              ELSE OuterExcept(g, q.exc)
      [] f.pc = "build" ->
           LET g == [f EXCEPT !.trade_data = Some(TradeData(f.compute_result[1],
                                                            f.pub_key[1])),
                              !.build_response = Some(r)]
               b == get_swap_transaction(r)
               transactions == Get(b.value.fields, "data", <<>>)
           IN IF ~b.ok
              THEN IF IsInstance(b.exc, "RaydiumError")
                   THEN Returns(g, format_error_message(TRANSACTION_CREATION_ERROR,
                                                        b.exc.msg))
                   ELSE OuterExcept(g, b.exc)
              ELSE IF NoTransactions(transactions)
              THEN Returns([g EXCEPT !.swap_response = Some(b.value)],
                           format_error_message(API_ERROR,
                               <<"No", "transaction", "data", "received">>))
              ELSE ProcessTransactions([g EXCEPT !.swap_response = Some(b.value),
                                                 !.transactions = transactions])
      [] f.pc = "blockhash" ->
           IF r.ok
           THEN [f EXCEPT !.recent_blockhash = Some(r.value), !.pc = "decode"]
           ELSE AttemptFailed(f, r.exc)
      [] f.pc = "decode" ->
           LET d == DecodeTransaction(f.transactions[f.tx_index])
           IN IF d.ok
              THEN [f EXCEPT !.transaction = Some(d.value),
                             !.new_message =
                                 Some(NewMessage(d.value, f.recent_blockhash[1])),
                             !.pc = "sign"]
              ELSE AttemptFailed(f, d.exc)
      [] f.pc = "sign" ->
           LET g == [f EXCEPT !.new_transaction =
                        Some([message |-> f.new_message[1], signatures |-> r.value])]
           IN IF r.value = <<>>
              THEN AttemptFailed(g, RaydiumError(FAILED_TO_SIGN))
              ELSE [g EXCEPT !.pc = "sleep"]
      [] f.pc = "sleep" -> [f EXCEPT !.pc = "submit"]
      [] f.pc = "submit" ->
           LET g == [f EXCEPT !.submitted = Append(@, f.new_transaction[1])]
           IN IF ~r.ok THEN AttemptFailed(g, r.exc)
              ELSE IF r.value = None
              THEN AttemptFailed(g, RaydiumError(FAILED_TO_SEND))
              ELSE IF r.value[1] # <<>>
              THEN [g EXCEPT !.tx_hash = r.value, !.pc = "notify"]
              ELSE NextAttempt([g EXCEPT !.tx_hash = r.value])
      [] f.pc = "notify" ->
           LET n == send_notification(r.value.api_key, r.value.response)
           IN IF n.ok \/ NotificationExceptCatches(n.exc)
              THEN Returns(f, SWAP_SUCCESSFUL)
              ELSE RetryExcept(f, n.exc)
      [] OTHER -> f

\* the steps of tool_function that call an external operation
ExternalCalls ==
    {"quote", "build", "blockhash", "decode", "sign", "sleep", "submit", "notify"}

\* an invocation run alone from state s = [frame, calls] with the responses rs
RECURSIVE RunAlone(_, _)
RunAlone(s, rs) ==
    IF rs = <<>> THEN s
    ELSE RunAlone([frame |-> AloneStep(s.frame, Head(rs)),
                   calls |-> IF s.frame.pc \in ExternalCalls
                             THEN Append(s.calls, s.frame.pc) ELSE s.calls],
                  Tail(rs))

\* the most calls the invocations of the concurrent specification make together
MaxConcurrentCalls == 10

\* the arguments of the concurrent specification
ConcurrentArguments ==
    {[token_address |-> ValidAddress, amount |-> Dec(4, 3), slippage_bps |-> 50],
     [token_address |-> WSOL_INPUT_MINT, amount |-> Dec(4, 3), slippage_bps |-> 50]}

RECURSIVE CallsOf(_)
CallsOf(S) ==
    IF S = {} THEN 0
    ELSE LET i == CHOOSE j \in S : TRUE IN Len(calls[i]) + CallsOf(S \ {i})

\* one more call may be made
CallsLeft == CallsOf(Invocations) < MaxConcurrentCalls

\* two invocations of tool_function in flight at once (the module keeps no lock and
\* is called from any thread)
InitConcurrent == InitOver({1, 2}, ConcurrentArguments)

NextConcurrent ==
    \E i \in Invocations :
        \/ Validate(i)
        \/ GetKeypair(i)
        \/ CallsLeft /\ GetSwapComputation(i)
        \/ CallsLeft /\ GetSwapTransaction(i)
        \/ CallsLeft /\ FetchBlockhash(i)
        \/ CallsLeft /\ DecodeAndSplice(i)
        \/ CallsLeft /\ Sign(i)
        \/ CallsLeft /\ Sleep(i)
        \/ CallsLeft /\ SendTransaction(i)
        \/ CallsLeft /\ SendNotification(i)

SpecConcurrent == InitConcurrent /\ [][NextConcurrent]_vars

\* invocation i is where, and has called what, a run of it alone with the same
\* arguments and the same responses is and has called
AsAlone(i) ==
    IF Active(i)
    THEN RunAlone([frame |-> InitialFrame(frame[i].token_address, frame[i].amount,
                                          frame[i].slippage_bps, "validate"),
                   calls |-> <<>>],
                  responses[i])
           = [frame |-> frame[i], calls |-> calls[i]]
    ELSE frame[i] = IdleFrame /\ calls[i] = <<>>

\* C12: concurrent invocations are independent: a step of one invocation changes
\* nothing of another invocation and nothing of the environment, and after every
\* step of any interleaving each invocation is in the state, with the calls and the
\* result, of a run of it alone that got the same responses.
C12_InvocationsIndependent ==
    /\ [](\A i \in Invocations : AsAlone(i))
    /\ [][\A i \in Invocations :
            Step(i) =>
                /\ environ' = environ
                /\ \A j \in Invocations \ {i} :
                       /\ frame'[j] = frame[j]
                       /\ calls'[j] = calls[j]
                       /\ failures'[j] = failures[j]
                       /\ responses'[j] = responses[j]]_vars

\* two invocations interleaved: one has submitted and returned while the other, which
\* fetched its blockhash earlier, is still in flight
C12_Witness ==
    \E i, j \in Invocations :
        /\ i # j
        /\ Returned(i)
        /\ Count(i, "submit") >= 1
        /\ ~Returned(j)
        /\ frame[j].recent_blockhash # None
        /\ frame[i].recent_blockhash # None
        /\ frame[j].recent_blockhash[1] < frame[i].recent_blockhash[1]

\* the position in calls[i] of the n-th submission
SubmitPosition(i, n) ==
    CHOOSE k \in Positions(i, "submit") :
        Cardinality({j \in Positions(i, "submit") : j <= k}) = n

\* the response to the call at position k of calls[i] (validation and configuration
\* come before the first call)
ResponseTo(i, k) == responses[i][k + 2]

\* the operations after which an operation is called
CalledAfter(op) ==
    CASE op = "build" -> {"quote"}
      [] op = "blockhash" -> {"build", "blockhash", "decode", "sign", "submit"}
      [] op = "decode" -> {"blockhash"}
      [] op = "sign" -> {"decode"}
      [] op = "sleep" -> {"sign"}
      [] op = "submit" -> {"sleep"}
      [] op = "notify" -> {"submit"}
      [] OTHER -> {}

\* C13: in every attempt the blockhash is fetched first, then the payload is decoded
\* and spliced, then signed, then the delay is taken, then the transaction is
\* submitted; every submission carries the blockhash fetched four calls before it in
\* its own attempt, no blockhash is submitted twice, and there are at least as many
\* blockhash fetches as submissions.
C13_FreshBlockhashPerAttempt ==
    \A i \in Invocations :
        /\ \A k \in DOMAIN calls[i] :
               IF k = 1 THEN calls[i][k] = "quote"
               ELSE calls[i][k - 1] \in CalledAfter(calls[i][k])
        /\ Len(frame[i].submitted) = Count(i, "submit")
        /\ \A n \in DOMAIN frame[i].submitted :
               LET k == SubmitPosition(i, n)
               IN /\ k >= 5
                  /\ calls[i][k - 4] = "blockhash"
                  /\ ResponseTo(i, k - 4).ok
                  /\ frame[i].submitted[n].message.recent_blockhash
                         = ResponseTo(i, k - 4).value
        /\ \A m, n \in DOMAIN frame[i].submitted :
               m # n => frame[i].submitted[m].message.recent_blockhash
                            # frame[i].submitted[n].message.recent_blockhash
        /\ Count(i, "blockhash") >= Count(i, "submit")

\* two submissions, and an attempt that fetched a blockhash and never submitted
C13_Witness ==
    \E i \in Invocations :
        /\ Count(i, "submit") >= 2
        /\ Count(i, "blockhash") > Count(i, "submit")
        /\ Returned(i)

\* the payloads of the answer of the build call
BuildData(i) == Get(frame[i].build_response[1].value.fields, "data", <<>>)

\* C14: the quote endpoint and the build endpoint are each called at most once per
\* invocation, whatever the number of attempts, and every attempt decodes the same
\* payload: the first of the list the one build call returned, kept unchanged.
C14_QuoteAndBuildOnce ==
    \A i \in Invocations :
        /\ Count(i, "quote") <= 1
        /\ Count(i, "build") <= 1
        /\ Count(i, "blockhash") > 0 =>
               /\ calls[i][1] = "quote"
               /\ calls[i][2] = "build"
               /\ frame[i].build_response = Some(ResponseTo(i, 2))
               /\ frame[i].transactions = BuildData(i)
               /\ frame[i].tx_index = 1
               /\ frame[i].transaction # None =>
                      frame[i].transaction[1] = BuildData(i)[1].transaction.tx
               /\ \A j \in DOMAIN failures[i] :
                      failures[i][j].step = "decode" =>
                          ~DecodeTransaction(BuildData(i)[1]).ok

\* the fifth attempt has decoded the payload, after four attempts that failed later
C14_Witness ==
    \E i \in Invocations :
        /\ frame[i].attempt = RETRY_BUDGET
        /\ frame[i].transaction # None
        /\ Count(i, "decode") = RETRY_BUDGET
        /\ Count(i, "quote") = 1
        /\ Count(i, "build") = 1

\* message m is payload message p in everything but the blockhash
SameButBlockhash(m, p) ==
    /\ m.header = p.header
    /\ m.account_keys = p.account_keys
    /\ m.instructions = p.instructions
    /\ m.address_table_lookups = p.address_table_lookups

\* the blockhash the latest fetch of invocation i answered
LastFetched(i) ==
    LET k == CHOOSE q \in Positions(i, "blockhash") :
                 \A r \in Positions(i, "blockhash") : r <= q
    IN ResponseTo(i, k).value

\* C15: the message that is signed and submitted equals the message of the decoded
\* payload in header, account keys, instructions and address-table lookups; its
\* blockhash is the one fetched in the same attempt; and the stored payload, and the
\* transaction decoded from it, stay as the build call returned them.
C15_SpliceFrameCondition ==
    \A i \in Invocations :
        Count(i, "blockhash") > 0 =>
            LET payload == BuildData(i)[1]
                f == frame[i]
            IN /\ f.transactions = Get(ResponseTo(i, 2).value.fields, "data", <<>>)
               /\ f.transaction # None => f.transaction[1] = payload.transaction.tx
               /\ f.new_message # None =>
                      /\ SameButBlockhash(f.new_message[1], payload.transaction.tx.message)
                      /\ f.recent_blockhash # None
                      /\ f.new_message[1].recent_blockhash = f.recent_blockhash[1]
                      /\ f.recent_blockhash[1] = LastFetched(i)
               /\ f.new_transaction # None =>
                      f.new_transaction[1].message = f.new_message[1]
               /\ \A n \in DOMAIN f.submitted :
                      /\ SameButBlockhash(f.submitted[n].message,
                                          payload.transaction.tx.message)
                      /\ f.submitted[n].signatures = <<f.solana_keypair[1]>>
                      /\ f.submitted[n].message.recent_blockhash
                             = ResponseTo(i, SubmitPosition(i, n) - 4).value

\* a second attempt has submitted a message whose blockhash differs from the
\* payload's and from the first attempt's
C15_Witness ==
    \E i \in Invocations :
        /\ Len(frame[i].submitted) >= 2
        /\ frame[i].submitted[2].message.recent_blockhash
               # BuildData(i)[1].transaction.tx.message.recent_blockhash
        /\ frame[i].submitted[2].message.recent_blockhash
               # frame[i].submitted[1].message.recent_blockhash
        /\ frame[i].submitted[2].message.instructions
               = BuildData(i)[1].transaction.tx.message.instructions

\* the submissions of invocation i that returned a transaction identifier
Successes(i) ==
    {k \in Positions(i, "submit") :
         /\ ResponseTo(i, k).ok
         /\ ResponseTo(i, k).value # None
         /\ ResponseTo(i, k).value[1] # <<>>}

\* C16 as stated: once a submission succeeds the invocation returns "Swap successful"
\* at once: only the notification follows the successful submission, no further
\* attempt is made, no later payload is processed, and at most one submission of an
\* invocation returns an identifier.
C16_AsStated ==
    \A i \in Invocations :
        /\ Cardinality(Successes(i)) <= 1
        /\ \A k \in Successes(i) :
               /\ frame[i].pc \in {"notify", "done"}
               /\ frame[i].tx_index = 1
               /\ frame[i].attempt = Count(i, "blockhash")
               /\ \A j \in DOMAIN calls[i] : j > k => calls[i][j] = "notify"
               /\ Returned(i) => ResultOf(i) = SWAP_SUCCESSFUL

\* a failure message the retry loop takes for insufficient funds
Insufficient(msg) == IsSubstring(<<"insufficient">>, Lower(msg))

\* C17: every failure inside an attempt that is not an insufficient-funds failure (a
\* failed blockhash fetch, a payload that cannot be decoded or has no transaction
\* field, a signing without signature, a submission that throws or answers null)
\* consumes exactly one attempt and is retried while the budget lasts: the j-th such
\* failure is the failure of attempt j, attempt j + 1 follows it when j < 5, after
\* the fifth the invocation returns "Failed after 5 retries", and the invocation is
\* never left by an exception.
C17_FailuresAreRetried ==
    \A i \in Invocations :
        /\ frame[i].attempt <= Len(failures[i]) + 1
        /\ \A j \in DOMAIN failures[i] :
               ~Insufficient(failures[i][j].msg) =>
                   /\ failures[i][j].attempt = j
                   /\ frame[i].pc # "raised"
                   /\ IF j < RETRY_BUDGET
                      THEN /\ frame[i].attempt >= j + 1
                           /\ Count(i, "blockhash") >= j + 1 \/ frame[i].pc = "blockhash"
                      ELSE /\ Returned(i)
                           /\ StartsWith(ResultOf(i),
                                  Tagged(TRANSACTION_ERROR)
                                      \o <<"Failed", "after", "5", "retries:">>)

\* five attempts that failed in a blockhash fetch, a signing, a submission that threw
\* and a submission that answered null
C17_Witness ==
    \E i \in Invocations :
        /\ Returned(i)
        /\ Len(failures[i]) = RETRY_BUDGET
        /\ \A j \in DOMAIN failures[i] : ~Insufficient(failures[i][j].msg)
        /\ {failures[i][j].step : j \in DOMAIN failures[i]}
               = {"blockhash", "sign", "submit"}
        /\ \E j \in DOMAIN failures[i] : failures[i][j].msg = FAILED_TO_SEND
        /\ \E j \in DOMAIN failures[i] :
               failures[i][j].step = "submit" /\ failures[i][j].msg # FAILED_TO_SEND

\* the pairs <<p, q>> of the starts of consecutive attempts of invocation i
ConsecutiveAttempts(i) ==
    {pq \in Positions(i, "blockhash") \X Positions(i, "blockhash") :
         /\ pq[1] < pq[2]
         /\ \A k \in Positions(i, "blockhash") : ~(pq[1] < k /\ k < pq[2])}

\* the calls of an operation between two positions
Between(i, op, p, q) == {k \in Positions(i, op) : p < k /\ k < q}

\* C18 as stated: between the start of any attempt and the start of the next attempt
\* the delay has been taken at least once, whatever step of the earlier attempt failed.
C18_AsStated ==
    \A i \in Invocations :
        \A pq \in ConsecutiveAttempts(i) : Between(i, "sleep", pq[1], pq[2]) # {}

\* C18: the delay belongs to the submission, not to the retry: it is taken exactly
\* once in an attempt that reaches its submission, directly before the submission,
\* and not at all in an attempt that fails in the blockhash fetch, the decoding or
\* the signing; so two consecutive attempts are separated by the delay exactly when
\* the earlier one failed in its submission.
C18_DelayBeforeSubmissionOnly ==
    \A i \in Invocations :
        /\ \A k \in Positions(i, "submit") : k > 1 /\ calls[i][k - 1] = "sleep"
        /\ Count(i, "sleep") <= Count(i, "submit") + 1
        /\ \A pq \in ConsecutiveAttempts(i) :
               /\ Cardinality(Between(i, "sleep", pq[1], pq[2])) <= 1
               /\ Between(i, "sleep", pq[1], pq[2]) # {}
                      <=> Between(i, "submit", pq[1], pq[2]) # {}
               /\ Between(i, "sleep", pq[1], pq[2]) # {}
                      <=> calls[i][pq[2] - 1] = "submit"

\* an attempt that failed before its delay is followed by the next attempt without
\* any delay, and an attempt that failed in its submission by one after a delay
C18_Witness ==
    \E i \in Invocations :
        /\ \E pq \in ConsecutiveAttempts(i) :
               /\ Between(i, "sleep", pq[1], pq[2]) = {}
               /\ calls[i][pq[2] - 1] = "sign"
        /\ \E pq \in ConsecutiveAttempts(i) :
               /\ Between(i, "sleep", pq[1], pq[2]) # {}
               /\ calls[i][pq[2] - 1] = "submit"

\* C19: the Unknown Error "No transactions processed" is unreachable: whatever payload
\* list the build call answers (none, empty, one payload, several) and whatever the
\* attempts do, no invocation returns a result of the Unknown Error category or with
\* that text.
C19_UnknownErrorUnreachable ==
    \A i \in Invocations :
        Returned(i) =>
            /\ ~StartsWith(ResultOf(i), Tagged(UNKNOWN_ERROR))
            /\ ~IsSubstring(<<"No", "transactions", "processed">>, ResultOf(i))

\* the build call answered several payloads, every attempt failed and the invocation
\* has returned
C19_Witness ==
    \E i \in Invocations :
        /\ Returned(i)
        /\ frame[i].build_response # None
        /\ Len(frame[i].transactions) = MaxPayloads
        /\ Len(failures[i]) = RETRY_BUDGET

\* tool_function runs to its end: it is synchronous and single-threaded, and every
\* external call is taken to return or fail eventually, so a step that can be taken
\* is taken

\* the arguments of the specification with fairness: accepted ones, and one rejected
\* value for each parameter
TerminationArguments ==
    [token_address : {ValidAddress, WSOL_INPUT_MINT},
     amount : {Dec(4, 3), Dec(AMOUNT_LE + 1, 0)},
     slippage_bps : {50, SLIPPAGE_LE + 1}]

InitFair == InitOver({1}, TerminationArguments)

SpecFair == InitFair /\ [][Next]_vars /\ WF_vars(Next)

\* C20: termination with bounded work: every invocation eventually returns, and at
\* no time has it made more than 1 quote call, 1 build call, 5 blockhash fetches,
\* 5 submissions, 5 delays and 1 notification call.
C20_TerminatesWithBoundedWork ==
    /\ [](\A i \in Invocations :
              /\ Count(i, "quote") <= 1
              /\ Count(i, "build") <= 1
              /\ Count(i, "blockhash") <= RETRY_BUDGET
              /\ Count(i, "submit") <= RETRY_BUDGET
              /\ Count(i, "sleep") <= RETRY_BUDGET
              /\ Count(i, "notify") <= 1)
    /\ <>[](\A i \in Invocations : Active(i) => Returned(i))

\* an invocation has returned after the most work: five blockhash fetches, five
\* delays and five submissions
C20_Witness ==
    \E i \in Invocations :
        /\ Returned(i)
        /\ Count(i, "quote") = 1
        /\ Count(i, "build") = 1
        /\ Count(i, "blockhash") = RETRY_BUDGET
        /\ Count(i, "sleep") = RETRY_BUDGET
        /\ Count(i, "submit") = RETRY_BUDGET

\* the first payload of invocation i has failed for good: its five attempts are
\* used up, or its latest attempt failed for insufficient funds
FirstPayloadFailed(i) ==
    \/ Len(failures[i]) = RETRY_BUDGET
    \/ /\ failures[i] # <<>>
       /\ Insufficient(failures[i][Len(failures[i])].msg)

\* C21: only the first payload is processed: every attempt decodes, signs and submits
\* the first payload of the list; when the first payload has failed (five attempts
\* used up, or an insufficient-funds failure) the invocation has returned a
\* Transaction Error whatever the number of payloads; and an invocation makes at
\* most five attempts and five submissions in all.
C21_OnlyFirstPayload ==
    \A i \in Invocations :
        Count(i, "blockhash") > 0 =>
            /\ frame[i].tx_index = 1
            /\ frame[i].attempt <= RETRY_BUDGET
            /\ Count(i, "blockhash") <= RETRY_BUDGET
            /\ Count(i, "decode") <= RETRY_BUDGET
            /\ Count(i, "sign") <= RETRY_BUDGET
            /\ Count(i, "submit") <= RETRY_BUDGET
            /\ frame[i].transaction # None =>
                   frame[i].transaction[1] = BuildData(i)[1].transaction.tx
            /\ \A n \in DOMAIN frame[i].submitted :
                   frame[i].submitted[n].message.instructions
                       = BuildData(i)[1].transaction.tx.message.instructions
            /\ FirstPayloadFailed(i) =>
                   /\ Returned(i)
                   /\ HasCategory(i, TRANSACTION_ERROR)

\* the build call answered several payloads, the first was submitted five times in
\* vain, and the invocation has returned
C21_Witness ==
    \E i \in Invocations :
        /\ Returned(i)
        /\ Len(frame[i].transactions) >= 2
        /\ Count(i, "submit") = RETRY_BUDGET
        /\ Len(failures[i]) = RETRY_BUDGET
        /\ HasCategory(i, TRANSACTION_ERROR)

\* the build call of invocation i reported success
BuildSucceeded(i) ==
    /\ frame[i].build_response # None
    /\ LET r == frame[i].build_response[1]
       IN /\ r.ok
          /\ r.value.json = "object"
          /\ "success" \in DOMAIN r.value.fields
          /\ r.value.fields.success = TRUE

\* C22: "Swap successful" is returned only by an invocation whose arguments are
\* valid and were validated, whose mnemonic was present, whose quote call and build
\* call each reported success, in that order, and one of whose submissions, made
\* after them, returned a non-null, non-empty transaction identifier.
C22_SuccessOnlyAfterAllSteps ==
    \A i \in Invocations :
        (Returned(i) /\ ResultOf(i) = SWAP_SUCCESSFUL) =>
            /\ frame[i].token_address # WSOL_INPUT_MINT
            /\ WellFormedAddress(frame[i].token_address)
            /\ AmountInRange(frame[i].amount)
            /\ SlippageInRange(frame[i].slippage_bps)
            /\ frame[i].params # None
            /\ ~EnvMissing(environ.MNEMONIC)
            /\ frame[i].solana_keypair # None
            /\ QuoteSucceeded(i)
            /\ BuildSucceeded(i)
            /\ Len(calls[i]) >= 7
            /\ calls[i][1] = "quote"
            /\ calls[i][2] = "build"
            /\ Successes(i) # {}
            /\ \A k \in Successes(i) :
                   /\ k > 2
                   /\ frame[i].tx_hash = ResponseTo(i, k).value
                   /\ frame[i].tx_hash[1] # <<>>

\* "Swap successful" has been returned, after an attempt that failed
C22_Witness ==
    \E i \in Invocations :
        /\ Returned(i)
        /\ ResultOf(i) = SWAP_SUCCESSFUL
        /\ failures[i] # <<>>
        /\ Successes(i) # {}

\* the arguments of invocation i pass the validation
ValidArguments(i) ==
    /\ frame[i].token_address # WSOL_INPUT_MINT
    /\ WellFormedAddress(frame[i].token_address)
    /\ AmountInRange(frame[i].amount)
    /\ SlippageInRange(frame[i].slippage_bps)

\* C23: validation is decided before configuration: an invalid request returns a
\* Validation Error whether MNEMONIC is there or not, and a Config Error is returned
\* only, and always, for a valid request without MNEMONIC. The later categories
\* follow in a fixed order: a Swap Computation Error only after validation and
\* configuration passed and with the quote as the only call; a Transaction Creation
\* Error and the API Error of the empty payload list only after a successful quote and
\* with the build as the last call, the API Error only for a build that reported
\* success; a Transaction Error only after a successful build with a payload and a
\* failed attempt.
C23_CategoryOrder ==
    \A i \in Invocations :
        Returned(i) =>
            /\ ~ValidArguments(i) =>
                   HasCategory(i, VALIDATION_ERROR) /\ calls[i] = <<>>
            /\ HasCategory(i, VALIDATION_ERROR) => ~ValidArguments(i)
            /\ (ValidArguments(i) /\ EnvMissing(environ.MNEMONIC)) =>
                   HasCategory(i, CONFIG_ERROR) /\ calls[i] = <<>>
            /\ HasCategory(i, CONFIG_ERROR) =>
                   /\ ValidArguments(i)
                   /\ frame[i].params # None
                   /\ EnvMissing(environ.MNEMONIC)
            /\ HasCategory(i, SWAP_COMPUTATION_ERROR) =>
                   /\ ValidArguments(i)
                   /\ frame[i].solana_keypair # None
                   /\ ~QuoteSucceeded(i)
                   /\ calls[i] = <<"quote">>
            /\ HasCategory(i, TRANSACTION_CREATION_ERROR) =>
                   /\ frame[i].solana_keypair # None
                   /\ QuoteSucceeded(i)
                   /\ ~BuildSucceeded(i)
                   /\ calls[i] = <<"quote", "build">>
            /\ HasCategory(i, API_ERROR) =>
                   /\ QuoteSucceeded(i)
                   /\ BuildSucceeded(i)
                   /\ BuildData(i) = <<>>
                   /\ calls[i] = <<"quote", "build">>
            /\ HasCategory(i, TRANSACTION_ERROR) =>
                   /\ QuoteSucceeded(i)
                   /\ BuildSucceeded(i)
                   /\ BuildData(i) # <<>>
                   /\ failures[i] # <<>>
                   /\ Len(calls[i]) > 2

\* an invalid request without MNEMONIC has returned its Validation Error
C23_Witness ==
    \E i \in Invocations :
        /\ Returned(i)
        /\ ~ValidArguments(i)
        /\ EnvMissing(environ.MNEMONIC)
        /\ HasCategory(i, VALIDATION_ERROR)

\* the detail of the Transaction Error for an insufficient-funds failure message
InsufficientDetail(msg) ==
    IF IsSubstring(<<"insufficient", "lamports">>, msg)
    THEN <<"Insufficient", "SOL", "to", "cover", "transaction", "fees", "and",
           "account", "creation", "costs.", "Need", "at", "least", "0.004", "SOL",
           "extra", "for", "fees.">>
    ELSE <<"Transaction", "processing", "failed:">> \o msg

\* C24: a failure of any step of an attempt whose message contains "insufficient" in
\* any letter case stops the retry loop on that attempt: it is the last failure and
\* the last call of the invocation, which has returned a Transaction Error; the
\* detail is the fixed "Insufficient SOL ..." text only when the message contains the
\* lower-case phrase "insufficient lamports", and otherwise "Transaction processing
\* failed:" followed by the message.
C24_InsufficientInAnyCase ==
    \A i \in Invocations :
        \A j \in DOMAIN failures[i] :
            Insufficient(failures[i][j].msg) =>
                /\ j = Len(failures[i])
                /\ frame[i].attempt = failures[i][j].attempt
                /\ calls[i][Len(calls[i])] = failures[i][j].step
                /\ Returned(i)
                /\ ResultOf(i) = Tagged(TRANSACTION_ERROR)
                                     \o InsufficientDetail(failures[i][j].msg)

\* a submission of a later attempt failed with "Insufficient lamports" in capitals:
\* the loop stopped there and the message was kept
C24_Witness ==
    \E i \in Invocations :
        /\ Returned(i)
        /\ Len(failures[i]) >= 2
        /\ failures[i][Len(failures[i])].step = "submit"
        /\ failures[i][Len(failures[i])].msg = CAPITAL_LAMPORTS_MSG
        /\ IsSubstring(CAPITAL_LAMPORTS_MSG, ResultOf(i))
        /\ Len(failures[i]) < RETRY_BUDGET

\* floor(a * 10^9) for a Decimal a >= 0, as whole SOL and lamports below one SOL
FloorLamports(a) ==
    IF IsLong(a)
    THEN LET fraction == FractionDigits(a) \o [k \in 1..9 |-> 0]
         IN [hi |-> DigitsValue(WholeDigits(a)),
             lo |-> DigitsValue(SubSeq(fraction, 1, 9))]
    ELSE IF a.exp <= 9
    THEN [hi |-> a.coef \div Pow10(a.exp),
          lo |-> (a.coef % Pow10(a.exp)) * Pow10(9 - a.exp)]
    ELSE LET n == a.coef \div Pow10(a.exp - 9)
         IN [hi |-> n \div Pow10(9), lo |-> n % Pow10(9)]

\* 0 < a < 10^-9
BelowOneLamport(a) ==
    IF IsLong(a)
    THEN /\ \E k \in DOMAIN a.digits : a.digits[k] # 0
         /\ FloorLamports(a) = [hi |-> 0, lo |-> 0]
    ELSE a.coef > 0 /\ a.exp > 9 /\ a.coef < Pow10(a.exp - 9)

\* C25 as stated: for every validated amount the lamports are floor(amount * 10^9),
\* between 0 and 10^13; they are 0 exactly when 0 < amount < 10^-9, and the quote is
\* then requested with amount 0; 0.004 gives 4000000.
C25_AsStated ==
    \A i \in Invocations :
        frame[i].lamports_amount # None =>
            LET a == frame[i].amount
                l == frame[i].lamports_amount[1]
            IN /\ l = FloorLamports(a)
               /\ 0 <= l.hi /\ 0 <= l.lo /\ l.lo < Pow10(9)
               /\ l.hi < 10000 \/ (l.hi = 10000 /\ l.lo = 0)
               /\ l = [hi |-> 0, lo |-> 0] <=> BelowOneLamport(a)
               /\ a = Dec(4, 3) => l = [hi |-> 0, lo |-> 4000000]
               /\ frame[i].quote_request # None =>
                      frame[i].quote_request[1].amount = FloorLamports(a)
               /\ (BelowOneLamport(a) /\ Len(calls[i]) > 0) =>
                      /\ calls[i][1] = "quote"
                      /\ frame[i].quote_request[1].amount = [hi |-> 0, lo |-> 0]

====
